---- MODULE Spec2Model ----
(***************************************************************************)
(* Model of synopsize (src/unnamed/part_001, lines 120-270): the emptiness *)
(* predicate, the ordered cascade of type patterns, the per-type           *)
(* comparators, the JavaScript Array.prototype.sort used on the non-empty  *)
(* values, and the frequency counter.                                      *)
(*                                                                         *)
(* A JavaScript string is a sequence of one-character strings.  A column   *)
(* element is a record [u |-> TRUE] for `undefined`, or [u |-> FALSE,      *)
(* s |-> chars] for a string.                                              *)
(***************************************************************************)
EXTENDS Integers, Sequences, FiniteSets, TLC

VARIABLES col, orig, pc, typeName, values, nonEmptyValues, minimum, maximum, counts,
          probe, verdict

vars == <<col, orig, pc, typeName, values, nonEmptyValues, minimum, maximum, counts,
          probe, verdict>>

\* Bound on the column length.
MaxLen == 3

Undef == [u |-> TRUE, s |-> <<>>]

Str(x) == [u |-> FALSE, s |-> x]

\* String(value): String(undefined) is the 9-character string "undefined".
JSString(v) == IF v.u THEN <<"u","n","d","e","f","i","n","e","d">> ELSE v.s

\* \s of a JavaScript RegExp: tab, line feed, vertical tab (U+000B), form
\* feed, carriage return, space, no-break space (U+00A0), ogham space mark
\* (U+1680) and the byte order mark (U+FEFF); its other members (U+2000 to
\* U+200A, U+2028, U+2029, U+202F, U+205F, U+3000) have no TLA+ string literal
\* and so occur in no value of the model.
WS == {"\t", "\n", "", "\f", "\r", " ", " ", " ", "﻿"}

Dg == {"0","1","2","3","4","5","6","7","8","9"}

AllIn(t, C) == \A i \in 1..Len(t) : t[i] \in C

\* isEmpty(value): (value === undefined) || /^\s*$/.test(value)
isEmpty(v) == v.u \/ AllIn(v.s, WS)

(***************************************************************************)
(* The validation patterns of knownTypes.  A pattern matches when the      *)
(* string can be split as the pattern prescribes (RegExp.test with ^..$).  *)
(***************************************************************************)
Seps == {<<>>, <<"-">>}

\* ^[12]\d{3}(-?)[01]\d\1[0123]\d  with group 1 bound to g
DatePrefixOK(t, g) ==
  LET k == Len(g) IN
  /\ Len(t) >= 8 + 2 * k
  /\ t[1] \in {"1","2"}
  /\ AllIn(SubSeq(t, 2, 4), Dg)
  /\ SubSeq(t, 5, 4 + k) = g
  /\ t[5 + k] \in {"0","1"}
  /\ t[6 + k] \in Dg
  /\ SubSeq(t, 7 + k, 6 + 2 * k) = g
  /\ t[7 + 2 * k] \in {"0","1","2","3"}
  /\ t[8 + 2 * k] \in Dg

\* [012]?\d:[0-5]\d  matching the whole of t
HourMinOK(t) ==
  \E hl \in {1, 2} :
    /\ Len(t) = hl + 3
    /\ (hl = 2 => t[1] \in {"0","1","2"})
    /\ t[hl] \in Dg
    /\ t[hl + 1] = ":"
    /\ t[hl + 2] \in {"0","1","2","3","4","5"}
    /\ t[hl + 3] \in Dg

\* DATETIME: /^[12]\d{3}(-?)[01]\d\1[0123]\d[T ][012]?\d:[0-5]\d(:[0-5]\d)?Z?$/
MatchDATETIME(t) ==
  \E g \in Seps, sec \in {0, 3}, z \in {0, 1} :
    LET k == 8 + 2 * Len(g)
        e == Len(t) - sec - z
    IN /\ Len(t) >= k + 5 + sec + z
       /\ DatePrefixOK(t, g)
       /\ t[k + 1] \in {"T", " "}
       /\ HourMinOK(SubSeq(t, k + 2, e))
       /\ (sec = 3 => /\ t[e + 1] = ":"
                      /\ t[e + 2] \in {"0","1","2","3","4","5"}
                      /\ t[e + 3] \in Dg)
       /\ (z = 1 => t[Len(t)] = "Z")

\* /^[12]\d{3}-?[01]\d-?[0123]\d$/: the two separators chosen independently
MatchDATEIndependentSeps(t) ==
  \E g1 \in Seps, g2 \in Seps :
    LET k1 == Len(g1) k2 == Len(g2) IN
    /\ Len(t) = 8 + k1 + k2
    /\ t[1] \in {"1","2"}
    /\ AllIn(SubSeq(t, 2, 4), Dg)
    /\ SubSeq(t, 5, 4 + k1) = g1
    /\ t[5 + k1] \in {"0","1"}
    /\ t[6 + k1] \in Dg
    /\ SubSeq(t, 7 + k1, 6 + k1 + k2) = g2
    /\ t[7 + k1 + k2] \in {"0","1","2","3"}
    /\ t[8 + k1 + k2] \in Dg

\* DATE: /^[12]\d{3}(-?)[01]\d\1[0123]\d$/
MatchDATE(t) ==
  \E g \in Seps : Len(t) = 8 + 2 * Len(g) /\ DatePrefixOK(t, g)

\* the part after an optional leading '-'
Unsigned(t) == IF Len(t) > 0 /\ t[1] = "-" THEN Tail(t) ELSE t

\* INTEGER: /^-?\d{1,10}$/
MatchINTEGER(t) == LET d == Unsigned(t) IN Len(d) \in 1..10 /\ AllIn(d, Dg)

\* BIGINT: /^-?\d{1,19}$/
MatchBIGINT(t) == LET d == Unsigned(t) IN Len(d) \in 1..19 /\ AllIn(d, Dg)

\* REAL: /^-?(\d+|\.\d+|\d+\.\d*)$/
MatchREAL(t) ==
  LET d == Unsigned(t) IN
  \/ Len(d) >= 1 /\ AllIn(d, Dg)
  \/ Len(d) >= 2 /\ d[1] = "." /\ AllIn(Tail(d), Dg)
  \/ \E i \in 2..Len(d) : /\ d[i] = "."
                          /\ AllIn(SubSeq(d, 1, i - 1), Dg)
                          /\ AllIn(SubSeq(d, i + 1, Len(d)), Dg)

\* TIME: /^[012]?\d:[0-5]\d$/
MatchTIME(t) == HourMinOK(t)

\* cascade with INTEGER tried before DATE
KnownTypesIntegerFirst == <<"DATETIME", "INTEGER", "DATE", "BIGINT", "REAL", "TIME">>

KnownTypes == <<"DATETIME", "DATE", "INTEGER", "BIGINT", "REAL", "TIME">>

RegExpTest(id, t) ==
  CASE id = "DATETIME" -> MatchDATETIME(t)
    [] id = "DATE"     -> MatchDATE(t)
    [] id = "INTEGER"  -> MatchINTEGER(t)
    [] id = "BIGINT"   -> MatchBIGINT(t)
    [] id = "REAL"     -> MatchREAL(t)
    [] id = "TIME"     -> MatchTIME(t)

\* knownType.test(values): values.every(value => regExp.test(String(value)))
TypeTest(id, vs) == \A i \in 1..Len(vs) : RegExpTest(id, JSString(vs[i]))

\* inferType(values): first known type whose test passes, else TEXT
RECURSIVE InferLoop(_, _)
InferLoop(vs, i) ==
  IF i > Len(KnownTypes) THEN "TEXT"
  ELSE IF TypeTest(KnownTypes[i], vs) THEN KnownTypes[i]
  ELSE InferLoop(vs, i + 1)

inferType(vs) == IF Len(vs) > 0 THEN InferLoop(vs, 1) ELSE "TEXT"

(***************************************************************************)
(* Number(string) for strings the numeric patterns accept, as JavaScript's *)
(* ToNumber computes it: the decimal value N / 10^f is rounded to the      *)
(* nearest double (ties to even), subnormals and Infinity included.  Big   *)
(* integers are sequences of base-2^15 limbs, least significant first,     *)
(* without high zero limbs (zero is <<>>).                                 *)
(***************************************************************************)
LimbBase == 2^15

DigitVal(c) == CHOOSE n \in 0..9 : <<"0","1","2","3","4","5","6","7","8","9">>[n + 1] = c

MaxIndex(S) == CHOOSE i \in S : \A j \in S : j <= i

BNorm(a) ==
  LET nz == {i \in 1..Len(a) : a[i] /= 0}
  IN IF nz = {} THEN <<>> ELSE SubSeq(a, 1, MaxIndex(nz))

RECURSIVE BMulAddDC(_, _, _)
\* a * m + c for non-empty a and small m, c: <<limbs of length Len(a), carry>>,
\* splitting a in halves so that the recursion depth is logarithmic
BMulAddDC(a, m, c) ==
  IF Len(a) = 1 THEN LET x == a[1] * m + c IN <<<<x % LimbBase>>, x \div LimbBase>>
  ELSE LET h  == Len(a) \div 2
           lo == BMulAddDC(SubSeq(a, 1, h), m, c)
           hi == BMulAddDC(SubSeq(a, h + 1, Len(a)), m, lo[2])
       IN <<lo[1] \o hi[1], hi[2]>>

\* a * m + c for small m, c
BMulAdd(a, m, c) ==
  IF a = <<>> THEN BNorm(<<c % LimbBase, c \div LimbBase>>)
  ELSE LET r == BMulAddDC(a, m, c)
       IN BNorm(r[1] \o <<r[2] % LimbBase, r[2] \div LimbBase>>)

RECURSIVE BAddDC(_, _, _)
\* a + b + carry for non-empty a and b of equal length: <<limbs, carry out>>
BAddDC(a, b, cy) ==
  IF Len(a) = 1 THEN LET x == a[1] + b[1] + cy IN <<<<x % LimbBase>>, x \div LimbBase>>
  ELSE LET h  == Len(a) \div 2
           lo == BAddDC(SubSeq(a, 1, h), SubSeq(b, 1, h), cy)
           hi == BAddDC(SubSeq(a, h + 1, Len(a)), SubSeq(b, h + 1, Len(b)), lo[2])
       IN <<lo[1] \o hi[1], hi[2]>>

Pad(a, n) == a \o [i \in 1..(n - Len(a)) |-> 0]

BAdd(a, b) ==
  LET n == IF Len(a) < Len(b) THEN Len(b) ELSE Len(a) IN
  IF n = 0 THEN <<>>
  ELSE LET r == BAddDC(Pad(a, n), Pad(b, n), 0) IN BNorm(r[1] \o <<r[2]>>)

\* a * LimbBase^k
LimbShift(a, k) == IF a = <<>> THEN <<>> ELSE [i \in 1..k |-> 0] \o a

RECURSIVE BMulDC(_, _)
\* a * b for non-empty b, splitting b in halves
BMulDC(a, b) ==
  IF Len(b) = 1 THEN BMulAdd(a, b[1], 0)
  ELSE LET h == Len(b) \div 2
       IN BAdd(BMulDC(a, SubSeq(b, 1, h)), LimbShift(BMulDC(a, SubSeq(b, h + 1, Len(b))), h))

BMul(a, b) == IF a = <<>> \/ b = <<>> THEN <<>> ELSE BMulDC(a, b)

RECURSIVE BPow10(_)
\* 10^f by squaring
BPow10(f) ==
  IF f = 0 THEN <<1>>
  ELSE LET r == BPow10(f \div 2)
           r2 == BMul(r, r)
       IN IF f % 2 = 1 THEN BMulAdd(r2, 10, 0) ELSE r2

RECURSIVE BFromDigits(_)
\* the value of a decimal digit string, splitting it in halves
BFromDigits(ds) ==
  IF Len(ds) <= 4
  THEN LET dv == [i \in 1..4 |-> IF i <= Len(ds) THEN DigitVal(ds[i]) ELSE 0]
           v  == ((dv[1] * 10 + dv[2]) * 10 + dv[3]) * 10 + dv[4]
       IN BMulAdd(<<>>, 1, v \div 10^(4 - Len(ds)))
  ELSE LET h == Len(ds) \div 2
       IN BAdd(BMul(BFromDigits(SubSeq(ds, 1, h)), BPow10(Len(ds) - h)),
               BFromDigits(SubSeq(ds, h + 1, Len(ds))))

\* a * 2^k
BShl(a, k) ==
  IF a = <<>> THEN <<>>
  ELSE BMulAdd([i \in 1..(k \div 15) |-> 0] \o a, 2^(k % 15), 0)

RECURSIVE BitLen(_)
BitLen(n) == IF n = 0 THEN 0 ELSE 1 + BitLen(n \div 2)

BBitLen(a) == IF a = <<>> THEN 0 ELSE 15 * (Len(a) - 1) + BitLen(a[Len(a)])

BCmp(a, b) ==
  IF Len(a) /= Len(b) THEN (IF Len(a) < Len(b) THEN -1 ELSE 1)
  ELSE LET dif == {i \in 1..Len(a) : a[i] /= b[i]}
       IN IF dif = {} THEN 0
          ELSE IF a[MaxIndex(dif)] < b[MaxIndex(dif)] THEN -1 ELSE 1

RECURSIVE BSubDC(_, _, _)
\* a - b - borrow for non-empty a and b of equal length: <<limbs, borrow out>>
BSubDC(a, b, br) ==
  IF Len(a) = 1 THEN LET x == a[1] - b[1] - br
                     IN IF x < 0 THEN <<<<x + LimbBase>>, 1>> ELSE <<<<x>>, 0>>
  ELSE LET h  == Len(a) \div 2
           lo == BSubDC(SubSeq(a, 1, h), SubSeq(b, 1, h), br)
           hi == BSubDC(SubSeq(a, h + 1, Len(a)), SubSeq(b, h + 1, Len(b)), lo[2])
       IN <<lo[1] \o hi[1], hi[2]>>

\* a - b, for a >= b
BSub(a, b) ==
  IF a = <<>> THEN <<>>
  ELSE BNorm(BSubDC(a, b \o [i \in 1..(Len(a) - Len(b)) |-> 0], 0)[1])

\* quotient bit i of num / den, sh = den * 2^i: <<bit, remainder>>
DivBit(num, sh) == IF BCmp(num, sh) >= 0 THEN <<<<1>>, BSub(num, sh)>> ELSE <<<<>>, num>>

\* the quotient bits hi..lo above the lower ones (k of them) and the remainder
DivJoin(k, qh, r2) == <<BAdd(BShl(qh, k), r2[1]), r2[2]>>

RECURSIVE DivDC(_, _, _, _), DivHi(_, _, _, _, _)
\* schoolbook binary division of num by den, for num < den * 2^(hi+1): the
\* quotient bits hi..lo (as a number) and the remainder, bits hi..mid+1 first
DivDC(num, den, hi, lo) ==
  IF hi = lo THEN DivBit(num, BShl(den, hi))
  ELSE DivHi(den, hi, lo, (hi + lo) \div 2, DivDC(num, den, hi, (hi + lo) \div 2 + 1))

DivHi(den, hi, lo, mid, r1) == DivJoin(mid - lo + 1, r1[1], DivDC(r1[2], den, mid, lo))

\* the decimal value of a numeric string: sign, N and D with value N / D
ParseNum(t) ==
  LET d   == Unsigned(t)
      dot == {i \in 1..Len(d) : d[i] = "."}
      ipd == IF dot = {} THEN d ELSE SubSeq(d, 1, (CHOOSE i \in dot : TRUE) - 1)
      fp  == IF dot = {} THEN <<>> ELSE SubSeq(d, (CHOOSE i \in dot : TRUE) + 1, Len(d))
  IN [neg |-> Len(t) > 0 /\ t[1] = "-", n |-> BFromDigits(ipd \o fp), f |-> Len(fp)]

Max2(x, y) == IF x < y THEN y ELSE x

\* N >= D * 2^e
GePow2(n, dd, e) == IF e >= 0 THEN BCmp(n, BShl(dd, e)) >= 0 ELSE BCmp(BShl(n, -e), dd) >= 0

\* a \div 2^k
BShr(a, k) ==
  LET l == k \div 15
      b == k % 15
  IN IF Len(a) <= l THEN <<>>
     ELSE BNorm([i \in 1..(Len(a) - l) |->
                  a[i + l] \div 2^b
                  + (IF i + l < Len(a) THEN (a[i + l + 1] % 2^b) * 2^(15 - b) ELSE 0)])

\* the double q * 2^-s for a q of at most 53 bits (zero for q = 0)
DblOf(neg, q, s) ==
  IF q = <<>> THEN [neg |-> neg, zero |-> TRUE, inf |-> FALSE, q |-> <<>>, s |-> 0]
  ELSE [neg |-> neg, zero |-> FALSE, inf |-> 52 - s > 1023, q |-> q, s |-> s]

\* a rounded quotient that carried into bit 54 is 2^53 * 2^-s = 2^52 * 2^-(s-1)
Renorm(neg, q1, s) == IF BBitLen(q1) = 54 THEN DblOf(neg, BShl(<<1>>, 52), s - 1) ELSE DblOf(neg, q1, s)

\* the double nearest to (q + rest) * 2^-s, where q is the 53-bit quotient and
\* c the sign of rest - 1/2 (ties to even)
RoundDbl(neg, q, c, s) ==
  Renorm(neg, IF c > 0 \/ (c = 0 /\ q /= <<>> /\ q[1] % 2 = 1) THEN BMulAdd(q, 1, 1) ELSE q, s)

\* an integer N of bl bits above 53: q0 = N \div 2^k, k = bl - 53
IntRound(neg, n, k, q0) == RoundDbl(neg, q0, BCmp(BShl(BSub(n, BShl(q0, k)), 1), BShl(<<1>>, k)), -k)

\* an integer N of bl bits: e = bl - 1, so s = 53 - bl
IntDbl(neg, n, bl) ==
  IF bl <= 53 THEN DblOf(neg, BShl(n, 53 - bl), 53 - bl)
  ELSE IntRound(neg, n, bl - 53, BShr(n, bl - 53))

\* N * 2^s / D (den is D * 2^-s when s < 0): 54 quotient bits and the remainder
FracQuot(neg, den, s, qr) == RoundDbl(neg, qr[1], BCmp(BShl(qr[2], 1), den), s)

FracDiv(neg, num, den, s) == FracQuot(neg, den, s, DivDC(num, den, 53, 0))

FracScale(neg, n, dd, s) ==
  IF s >= 0 THEN FracDiv(neg, BShl(n, s), dd, s) ELSE FracDiv(neg, n, BShl(dd, -s), s)

\* 2^e <= N / D < 2^(e+1), from the estimate e0 = bits(N) - bits(D); s = 52 - max(e, -1022)
FracExp(neg, n, dd, e0) ==
  FracScale(neg, n, dd, 52 - Max2(IF GePow2(n, dd, e0) THEN e0 ELSE e0 - 1, -1022))

FracDbl(neg, n, dd) == FracExp(neg, n, dd, BBitLen(n) - BBitLen(dd))

NumberOfParsed(p) ==
  IF p.n = <<>> THEN DblOf(p.neg, <<>>, 0)
  ELSE IF p.f = 0 THEN IntDbl(p.neg, p.n, BBitLen(p.n))
  ELSE FracDbl(p.neg, p.n, BPow10(p.f))

\* Number(value): a double as [neg, zero, inf, q, s] with value q * 2^-s
NumberOf(t) == NumberOfParsed(ParseNum(t))

Sgn(x) == IF x < 0 THEN -1 ELSE IF x > 0 THEN 1 ELSE 0


(***************************************************************************)
(* compareStrings(a, b): a.localeCompare(b), the root collation: primary   *)
(* weights (whitespace < '-' < ':' < '.' < digits < letters, letters       *)
(* without case), then case (lower before upper) as tertiary difference.   *)
(***************************************************************************)
CollOrder == <<"\t", "\n", "", "\f", "\r", " ", "-", ":", ".", "0","1","2","3","4","5","6","7","8","9",
               "a","b","c","d","e","f","g","h","i","j","k","l","m","n","o",
               "p","q","r","s","t","u","v","w","x","y","z">>

UpperLetters == <<"A","B","C","D","E","F","G","H","I","J","K","L","M","N","O","P","Q","R","S","T","U","V","W","X","Y","Z">>

LowerLetters == <<"a","b","c","d","e","f","g","h","i","j","k","l","m","n","o","p","q","r","s","t","u","v","w","x","y","z">>

Upper == [c \in {UpperLetters[i] : i \in 1..26} |->
            LowerLetters[CHOOSE i \in 1..26 : UpperLetters[i] = c]]

\* ogham space mark and no-break space are tertiary variants of space
Fold(c) == IF c \in DOMAIN Upper THEN Upper[c] ELSE IF c \in {" ", " "} THEN " " ELSE c

PrimaryW(c) == CHOOSE i \in 1..Len(CollOrder) : CollOrder[i] = Fold(c)

\* case: lower before upper; space before ogham space mark before no-break space
TertiaryW(c) == IF c \in DOMAIN Upper THEN 1 ELSE IF c = " " THEN 1 ELSE IF c = " " THEN 2 ELSE 0

W(kind, c) ==
  CASE kind = "primary"  -> PrimaryW(c)
    [] kind = "tertiary" -> TertiaryW(c)

RECURSIVE SeqCmp(_, _, _)
\* lexicographic comparison by the weights W(kind, _), a proper prefix first
SeqCmp(a, b, kind) ==
  IF a = <<>> /\ b = <<>> THEN 0
  ELSE IF a = <<>> THEN -1
  ELSE IF b = <<>> THEN 1
  ELSE IF W(kind, Head(a)) /= W(kind, Head(b)) THEN Sgn(W(kind, Head(a)) - W(kind, Head(b)))
  ELSE SeqCmp(Tail(a), Tail(b), kind)

\* magnitude comparison of two nonzero doubles
DblMagCmp(x, y) ==
  IF x.inf \/ y.inf THEN (IF x.inf = y.inf THEN 0 ELSE IF x.inf THEN 1 ELSE -1)
  ELSE IF x.s /= y.s THEN (IF x.s < y.s THEN 1 ELSE -1)
  ELSE BCmp(x.q, y.q)

\* sign of x - y for two doubles (Infinity - Infinity is NaN, which sort reads as 0)
DblCmp(x, y) ==
  IF x.zero /\ y.zero THEN 0
  ELSE IF x.zero THEN (IF y.neg THEN 1 ELSE -1)
  ELSE IF y.zero THEN (IF x.neg THEN -1 ELSE 1)
  ELSE IF x.neg /= y.neg THEN (IF x.neg THEN -1 ELSE 1)
  ELSE IF x.neg THEN DblMagCmp(y, x) ELSE DblMagCmp(x, y)

\* a decimal of at most five characters besides the sign: its value times
\* 10^4 fits a machine integer, and its double is exact enough that the
\* sign of a - b is the sign of the exact difference
ShortDec(t) == Len(Unsigned(t)) <= 5

RECURSIVE DecFold(_, _)
DecFold(ds, acc) ==
  IF ds = <<>> THEN acc
  ELSE DecFold(Tail(ds), IF Head(ds) = "." THEN acc ELSE acc * 10 + DigitVal(Head(ds)))

ShortVal(t) ==
  LET d   == Unsigned(t)
      dot == {i \in 1..Len(d) : d[i] = "."}
      f   == IF dot = {} THEN 0 ELSE Len(d) - (CHOOSE i \in dot : TRUE)
      v   == DecFold(d, 0) * 10^(4 - f)
  IN IF Len(t) > 0 /\ t[1] = "-" THEN -v ELSE v

\* compareNumbers(a, b): a - b, after ToNumber of both strings
compareNumbers(a, b) ==
  IF ShortDec(a.s) /\ ShortDec(b.s) THEN Sgn(ShortVal(a.s) - ShortVal(b.s))
  ELSE DblCmp(NumberOf(a.s), NumberOf(b.s))

\* the byte order mark (U+FEFF) is completely ignorable
Collatable(c) == c /= "﻿"

compareStrings(a, b) ==
  LET x == SelectSeq(a.s, Collatable)
      y == SelectSeq(b.s, Collatable)
      p == SeqCmp(x, y, "primary")
  IN IF p /= 0 THEN p ELSE SeqCmp(x, y, "tertiary")

\* type.compareFunction
compareFunction(id, a, b) ==
  IF id \in {"INTEGER", "BIGINT", "REAL"} THEN compareNumbers(a, b) ELSE compareStrings(a, b)

(***************************************************************************)
(* Array.prototype.sort(comparefn): undefined elements are moved to the    *)
(* end without calling comparefn; the others are sorted stably.            *)
(***************************************************************************)
RECURSIVE InsertSorted(_, _, _)
InsertSorted(x, srt, id) ==
  IF srt = <<>> THEN <<x>>
  ELSE IF compareFunction(id, Head(srt), x) > 0 THEN <<x>> \o srt
  ELSE <<Head(srt)>> \o InsertSorted(x, Tail(srt), id)

RECURSIVE StableSort(_, _, _)
StableSort(vs, acc, id) ==
  IF vs = <<>> THEN acc ELSE StableSort(Tail(vs), InsertSorted(Head(vs), acc, id), id)

IsDefined(v) == ~v.u
IsUndefined(v) == v.u

ArraySort(vs, id) == StableSort(SelectSeq(vs, IsDefined), <<>>, id) \o SelectSeq(vs, IsUndefined)

(***************************************************************************)
(* count(values): Map in insertion order, as a sequence of <<key, n>>.      *)
(***************************************************************************)
MapKeys(m) == {m[i][1] : i \in 1..Len(m)}

MapSet(m, k, n) ==
  IF k \in MapKeys(m)
  THEN [i \in 1..Len(m) |-> IF m[i][1] = k THEN <<k, n>> ELSE m[i]]
  ELSE Append(m, <<k, n>>)

MapGet(m, k) == LET i == CHOOSE j \in 1..Len(m) : m[j][1] = k IN m[i][2]

RECURSIVE CountLoopLastKey(_, _)
\* variant reading the previous count only from the last inserted key
CountLoopLastKey(vs, m) ==
  IF vs = <<>> THEN m
  ELSE LET v == Head(vs)
           previous == IF m /= <<>> /\ m[Len(m)][1] = v THEN m[Len(m)][2] ELSE 0
       IN CountLoopLastKey(Tail(vs), MapSet(m, v, previous + 1))

RECURSIVE CountLoop(_, _)
CountLoop(vs, m) ==
  IF vs = <<>> THEN m
  ELSE LET v == Head(vs)
           previous == IF v \in MapKeys(m) THEN MapGet(m, v) ELSE 0
       IN CountLoop(Tail(vs), MapSet(m, v, previous + 1))

count(vs) == CountLoop(vs, <<>>)

NotEmptyString(v) == ~isEmpty(Str(JSString(v)))

(***************************************************************************)
(* synopsize(values)                                                       *)
(***************************************************************************)
\* variant returning the sorted non-empty array as the values field
(***************************************************************************)
(* Arrays are objects on a heap: a heap maps array references to contents. *)
(* The caller's array is "input"; values.filter allocates "filtered".      *)
(***************************************************************************)
\* a filter that removes the elements from the array itself
ArrayFilterInPlace(h, src) == <<src, [h EXCEPT ![src] = SelectSeq(h[src], NotEmptyString)]>>

\* values.filter(value => !isEmpty(String(value))): a new array, <<ref, heap>>
ArrayFilter(h, src) ==
  <<"filtered", [k \in DOMAIN h \cup {"filtered"} |->
                  IF k = "filtered" THEN SelectSeq(h[src], NotEmptyString) ELSE h[k]]>>

\* array.sort(compareFunction): sorts the array it is called on and returns it
SortInPlace(h, r, id) == [h EXCEPT ![r] = ArraySort(h[r], id)]

\* synopsize(values), with col the contents of the caller's array
Synopsize ==
  /\ pc = "init"
  /\ LET h0   == [k \in {"input"} |-> col]
         f    == ArrayFilter(h0, "input")
         nev  == f[1]
         type == inferType(f[2][nev])
         h2   == SortInPlace(f[2], nev, type)
     IN /\ typeName' = type
        \* values is the caller's array itself, read after the sort
        /\ values' = h2["input"]
        /\ col' = h2["input"]
        /\ nonEmptyValues' = h2[nev]
        /\ minimum' = IF Len(h2[nev]) > 0 THEN h2[nev][1] ELSE Undef
        /\ maximum' = IF Len(h2[nev]) > 0 THEN h2[nev][Len(h2[nev])] ELSE Undef
        /\ counts' = count(h2[nev])
  /\ pc' = "done"
  /\ UNCHANGED <<orig, probe, verdict>>

\* The column values used as inputs.
Universe == {Undef, Str(<<>>), Str(<<" ", "\t", "", " ", "﻿">>), Str(<<"a">>),
             Str(<<"h","e","l","l","o">>), Str(<<"9">>), Str(<<"1","0">>), Str(<<"2">>),
             Str(<<"2","0","1","6","0","1","1","8">>),
             Str(<<"2","0","1","6","-","0","1","-","1","8">>),
             Str(<<"4",":","3","0">>), Str(<<"1",".","5">>),
             Str(<<"9","0","0","7","1","9","9","2","5","4","7","4","0","9","9","3">>),
             Str(<<"9","0","0","7","1","9","9","2","5","4","7","4","0","9","9","2">>)}

NoProbe == [kind |-> "none"]

Columns == UNION {[1..n -> Universe] : n \in 0..MaxLen}

Init ==
  /\ col \in Columns
  /\ orig = col
  /\ pc = "init"
  /\ typeName = "TEXT"
  /\ values = <<>>
  /\ nonEmptyValues = <<>>
  /\ minimum = Undef
  /\ maximum = Undef
  /\ counts = <<>>
  /\ probe = NoProbe
  /\ verdict = NoProbe

Next == Synopsize

Spec == Init /\ [][Next]_vars

(***************************************************************************)
(* The patterns of knownTypes applied to single strings (regExp.test).     *)
(* A probe records how its string was built: year 2016, month 01, day 18   *)
(* with separators g1, g2, and an hour and a minute field.                 *)
(***************************************************************************)
Hours == {<<a>> : a \in Dg} \cup {<<a, b>> : a \in Dg, b \in Dg}

Minutes == {<<a, b>> : a \in Dg, b \in Dg}

DateStr(g1, g2) == <<"2","0","1","6">> \o g1 \o <<"0","1">> \o g2 \o <<"1","8">>

\* a probe: how its string was built, and the string
MkProbe(kind, g1, g2, h, m, str) ==
  [kind |-> kind, g1 |-> g1, g2 |-> g2, hour |-> h, minute |-> m, str |-> str]

InitRe ==
  /\ col = <<>>
  /\ orig = <<>>
  /\ pc = "init"
  /\ typeName = "TEXT"
  /\ values = <<>>
  /\ nonEmptyValues = <<>>
  /\ minimum = Undef
  /\ maximum = Undef
  /\ counts = <<>>
  /\ \/ \E g1, g2 \in Seps :
          probe = MkProbe("date", g1, g2, <<>>, <<>>, DateStr(g1, g2))
     \/ \E g1, g2 \in Seps, h \in Hours, m \in Minutes :
          probe = MkProbe("datetime", g1, g2, h, m,
                          DateStr(g1, g2) \o <<"T">> \o h \o <<":">> \o m)
     \/ \E h \in Hours, m \in Minutes :
          probe = MkProbe("time", <<>>, <<>>, h, m, h \o <<":">> \o m)
  /\ verdict = NoProbe

\* regExp.test(String(value)) for every known type
TestPatterns ==
  /\ pc = "init"
  /\ verdict' = [id \in {KnownTypes[i] : i \in 1..Len(KnownTypes)} |-> RegExpTest(id, probe.str)]
  /\ pc' = "done"
  /\ UNCHANGED <<col, orig, typeName, values, nonEmptyValues, minimum, maximum, counts, probe>>

NextRe == TestPatterns

SpecRe == InitRe /\ [][NextRe]_vars

(***************************************************************************)
(* Properties.                                                             *)
(***************************************************************************)
\* The emptiness predicate of the specification: undefined, or whitespace only.
Missing(v) == v.u \/ AllIn(v.s, WS)

Occ(sq, v) == Cardinality({i \in 1..Len(sq) : sq[i] = v})

MissingCount == Cardinality({i \in 1..Len(col) : Missing(col[i])})

RECURSIVE SumCounts(_)
SumCounts(m) == IF m = <<>> THEN 0 ELSE Head(m)[2] + SumCounts(Tail(m))

RECURSIVE IsSubseq(_, _)
\* a is an order-preserving subsequence of b
IsSubseq(a, b) ==
  IF a = <<>> THEN TRUE
  ELSE IF b = <<>> THEN FALSE
  ELSE IF Head(a) = Head(b) THEN IsSubseq(Tail(a), Tail(b))
  ELSE IsSubseq(a, Tail(b))

RECURSIVE Dedup(_, _)
Dedup(sq, seen) ==
  IF sq = <<>> THEN <<>>
  ELSE IF Head(sq) \in seen THEN Dedup(Tail(sq), seen)
  ELSE <<Head(sq)>> \o Dedup(Tail(sq), seen \cup {Head(sq)})

\* C1: the non-missing values plus the missing ones account for the whole
\* column; nonEmptyValues holds exactly the elements that are neither
\* undefined nor whitespace-only.
C1_MissingAccounting ==
  pc = "done" =>
    /\ Len(nonEmptyValues) + MissingCount = Len(col)
    /\ \A i \in 1..Len(col) :
         Occ(nonEmptyValues, col[i]) = IF Missing(col[i]) THEN 0 ELSE Occ(col, col[i])

\* C2: a column of missing values only gives TEXT, no non-empty values,
\* undefined extrema and empty counts.
C2_AllMissingColumn ==
  (pc = "done" /\ \A i \in 1..Len(col) : Missing(col[i])) =>
    /\ typeName = "TEXT"
    /\ nonEmptyValues = <<>>
    /\ minimum = Undef
    /\ maximum = Undef
    /\ counts = <<>>

\* C3: counts maps each distinct non-missing value of the column to its number
\* of occurrences in nonEmptyValues, nothing else, and sums to their number.
C3_CountsTabulation ==
  pc = "done" =>
    /\ MapKeys(counts) = {col[i] : i \in {j \in 1..Len(col) : ~Missing(col[j])}}
    /\ \A k \in MapKeys(counts) : MapGet(counts, k) = Occ(nonEmptyValues, k)
    /\ SumCounts(counts) = Len(nonEmptyValues)

\* The cascade order the specification gives for the classifier.
ClaimTypeOrder == <<"DATETIME", "DATE", "INTEGER", "BIGINT", "REAL", "TIME">>

AllMatch(id, vs) == \A i \in 1..Len(vs) : RegExpTest(id, JSString(vs[i]))

Hello == Str(<<"h","e","l","l","o">>)

Date8 == Str(<<"2","0","1","6","0","1","1","8">>)

\* C4: on non-empty non-missing strings the type is the first of
\* DATETIME, DATE, INTEGER, BIGINT, REAL, TIME whose pattern matches every
\* value, TEXT when none does; "hello" forces TEXT, "20160118" values give DATE.
C4_ClassifierCascade ==
  (pc = "done" /\ Len(nonEmptyValues) > 0 /\ \A i \in 1..Len(nonEmptyValues) : ~Missing(nonEmptyValues[i])) =>
    /\ typeName = "TEXT" <=> \A j \in 1..6 : ~AllMatch(ClaimTypeOrder[j], nonEmptyValues)
    /\ typeName /= "TEXT" =>
         \E j \in 1..6 : /\ ClaimTypeOrder[j] = typeName
                         /\ AllMatch(typeName, nonEmptyValues)
                         /\ \A j2 \in 1..(j - 1) : ~AllMatch(ClaimTypeOrder[j2], nonEmptyValues)
    /\ (\E i \in 1..Len(nonEmptyValues) : nonEmptyValues[i] = Hello) => typeName = "TEXT"
    /\ (\A i \in 1..Len(nonEmptyValues) : nonEmptyValues[i] = Date8) => typeName = "DATE"

C4_Witness ==
  /\ pc = "done"
  /\ Len(nonEmptyValues) >= 2
  /\ \A i \in 1..Len(nonEmptyValues) : nonEmptyValues[i] = Date8

NumericTypes == {"INTEGER", "BIGINT", "REAL"}

\* sign of the exact difference of two decimal strings
ExactCmp(t1, t2) ==
  LET x == ParseNum(t1)
      y == ParseNum(t2)
      mx == BMul(x.n, BPow10(y.f))
      my == BMul(y.n, BPow10(x.f))
      sx == IF x.n = <<>> THEN 0 ELSE IF x.neg THEN -1 ELSE 1
      sy == IF y.n = <<>> THEN 0 ELSE IF y.neg THEN -1 ELSE 1
  IN IF sx /= sy THEN (IF sx < sy THEN -1 ELSE 1)
     ELSE IF sx >= 0 THEN BCmp(mx, my) ELSE BCmp(my, mx)

\* C5: the extrema are the least and greatest non-missing values: numerically
\* for INTEGER, BIGINT and REAL, by string ordering otherwise.
C5_Extrema ==
  (pc = "done" /\ Len(nonEmptyValues) > 0) =>
    \A i \in 1..Len(col) :
      ~Missing(col[i]) =>
        IF typeName \in NumericTypes
        THEN /\ ExactCmp(minimum.s, col[i].s) <= 0
             /\ ExactCmp(maximum.s, col[i].s) >= 0
        ELSE /\ compareStrings(Str(JSString(minimum)), col[i]) <= 0
             /\ compareStrings(Str(JSString(maximum)), col[i]) >= 0

\* C6: nonEmptyValues keeps the input's relative order.
C6_NonEmptyOrderPreserved ==
  pc = "done" => IsSubseq(nonEmptyValues, col)

\* C7: the input is left unchanged and values is the original column.
C7_InputUnchanged ==
  pc = "done" => /\ col = orig
                 /\ values = orig

C7_Witness ==
  /\ pc = "done"
  /\ \E i \in 1..Len(orig) : Missing(orig[i])
  /\ SelectSeq(orig, NotEmptyString) /= nonEmptyValues

\* C8: when every non-missing value equals v, minimum = maximum = v and
\* counts is {v: n}.
C8_SingleDistinctValue ==
  \A v \in Universe :
    (/\ pc = "done"
     /\ ~Missing(v)
     /\ \A i \in 1..Len(col) : Missing(col[i]) \/ col[i] = v
     /\ Occ(col, v) >= 1) =>
       /\ minimum = v
       /\ maximum = v
       /\ counts = <<<<v, Occ(col, v)>>>>

\* C10: counts iterates in order of first occurrence in the column.
C10_CountsFirstOccurrenceOrder ==
  pc = "done" =>
    [i \in 1..Len(counts) |-> counts[i][1]] = SelectSeq(Dedup(col, {}), LAMBDA v : v \in MapKeys(counts))

MinuteInRange(m) == m[1] \in {"0","1","2","3","4","5"}

HourFrom012(h) == h[1] \in {"0","1","2"}

\* C9: DATE and DATETIME accept the second '-' exactly when the first is
\* present; DATETIME and TIME reject minutes outside 00-59 and accept any
\* 1-2 digit hour starting with 0, 1 or 2.
C9_PatternDetails ==
  pc = "done" =>
    /\ probe.kind = "date" => (verdict["DATE"] <=> probe.g1 = probe.g2)
    /\ probe.kind = "datetime" =>
         /\ probe.g1 /= probe.g2 => ~verdict["DATETIME"]
         /\ ~MinuteInRange(probe.minute) => ~verdict["DATETIME"]
         /\ (probe.g1 = probe.g2 /\ MinuteInRange(probe.minute) /\ HourFrom012(probe.hour))
              => verdict["DATETIME"]
    /\ probe.kind = "time" =>
         /\ ~MinuteInRange(probe.minute) => ~verdict["TIME"]
         /\ (MinuteInRange(probe.minute) /\ HourFrom012(probe.hour)) => verdict["TIME"]

C9_Witness ==
  /\ pc = "done"
  /\ probe.kind = "datetime"
  /\ probe.g1 = <<"-">>
  /\ probe.g2 = <<>>
  /\ probe.hour = <<"0","1">>
  /\ probe.minute = <<"4","5">>

Perms(n) == {p \in [1..n -> 1..n] : \A i, j \in 1..n : i /= j => p[i] /= p[j]}

\* counts as a function from value to count, forgetting insertion order
AsFun(m) == [k \in MapKeys(m) |-> MapGet(m, k)]

\* C11: a permutation of the column gets the same typeName and the same
\* counts (as a value-to-count function) from synopsize.
C11_PermutationInvariance ==
  pc = "done" =>
    \A p \in Perms(Len(col)) :
      LET c2 == [i \in 1..Len(col) |-> col[p[i]]]
          f2 == SelectSeq(c2, NotEmptyString)
          t2 == inferType(f2)
          m2 == count(ArraySort(f2, t2))
      IN /\ t2 = typeName
         /\ AsFun(m2) = AsFun(counts)

C11_Witness ==
  /\ pc = "done"
  /\ typeName = "INTEGER"
  /\ \E i, j \in 1..Len(col) : i < j /\ ~Missing(col[i]) /\ ~Missing(col[j]) /\ col[i] /= col[j]
  /\ \E i \in 1..Len(col) : Missing(col[i])

====
